---- MODULE Spec2Model ----
(***************************************************************************)
(* Double-buffered TLAS update protocol of a-tlas.                         *)
(*                                                                         *)
(* Two threads and two GPU flights:                                        *)
(*   - the update worker (src/src/async_worker.rs, run_worker), which      *)
(*     rebuilds the back TLAS copy on the compute flight and publishes it  *)
(*     through the atomic current_as_index;                                *)
(*   - the render thread (src/src/lib.rs, window_event/RedrawRequested),   *)
(*     whose per-frame task (src/src/tasks/render.rs,                      *)
(*     RayTracingRenderTask::execute) loads current_as_index and binds the *)
(*     TLAS copy at that index;                                            *)
(*   - the graphics flight, which retires submitted frames;                *)
(*   - the compute flight, which retires submitted rebuilds.               *)
(*                                                                         *)
(* Atomic loads and stores are Ordering::Relaxed on single locations; each *)
(* is one step of the model.                                               *)
(***************************************************************************)
EXTENDS Naturals, Integers, FiniteSets, Sequences, TLC

\* ------------------------------------------------------------------ bounds
\* Frames the render thread may submit.
MaxFrames == 4
\* Update cycles the worker may start.
MaxCycles == 3
\* Wakes that may be sent between two receives of the worker.
MaxWakes == 3

\* Capacity of the notification channel ("single-slot notification channel").
ChannelSlots == 1

\* Timeout argument of graphics_flight.wait_for_frame(last_frame, None).
WaitTimeoutBounded == "Some"

WaitTimeout == "None"

VARIABLES
    \* ---- shared selection state (render.rs:376-377)
    current_as_index,     \* AtomicBool: TLAS copy the render thread binds
    show_current_index,   \* AtomicBool: observability flag
    \* ---- update worker (async_worker.rs:61-106)
    wpc,                  \* position of the worker in run_worker's loop
    last_frame,           \* local `last_frame`
    back_index,           \* local `back_index`
    waited_frame,         \* argument of the last wait_for_frame call
    seen_frame,           \* value of current_frame() that ended the poll loop
    cycles,               \* completed cycles (iterations of the while loop)
    \* ---- notification channel (mpsc::Receiver<()>)
    chan,                 \* wakes buffered in the channel
    unconsumed,           \* wakes sent since the worker last received
    woken_by,             \* wakes sent before the receive that began the cycle
    disconnected,         \* every Sender of the channel has been dropped
    \* ---- render thread
    rpc,                  \* position of the render thread in a frame
    front_index,          \* local `front_index` of execute
    \* ---- graphics flight
    current_frame,        \* graphics_flight.current_frame()
    gfxInFlight,          \* submitted, unretired frames: [frame, tlas]
    \* ---- compute flight
    computeInFlight,      \* submitted, unretired rebuilds: [id, tlas, gen]
    computeFrame,         \* compute flight frame counter
    \* ---- GPU memory
    instance_buffer,      \* generation of the data in the instance buffer
    tlas,                 \* generation each TLAS copy was last built from
    tlas_input,           \* buffer each TLAS copy was last built from
    \* ---- construction (render.rs:75-187, rt/acceleration_structure.rs)
    bpc,                  \* position of RayTracingRenderTask::new: << step, structure >>
    buildInFlight,        \* submitted, unretired builds: [id, structure]
    built,                \* structures whose initial build has retired
    handles,              \* structures whose handle has been returned
    \* ---- voxel world (world/chunk.rs)
    inner,                \* Chunks.inner: the chunks that differ from Chunk::default()
    inserted,             \* positions insert_voxel has been called with and returned
    op,                   \* the last world operation called
    arg,                  \* its argument
    ret                   \* its outcome: [panic, val]

protocolVars ==
        << current_as_index, show_current_index, wpc, last_frame, back_index,
           waited_frame, seen_frame, cycles, chan, unconsumed, woken_by,
           disconnected, rpc,
           front_index, current_frame, gfxInFlight, computeInFlight,
           computeFrame, instance_buffer, tlas, tlas_input,
           bpc, buildInFlight, built, handles >>

buildVars == << bpc, buildInFlight, built, handles >>

worldVars == << inner, inserted, op, arg, ret >>

vars == << protocolVars, worldVars >>

workerVars == << wpc, last_frame, back_index, waited_frame, seen_frame, cycles >>
renderVars == << rpc, front_index >>
gfxVars == << current_frame, gfxInFlight >>
computeVars == << computeInFlight, computeFrame >>
memVars == << instance_buffer, tlas, tlas_input >>
chanVars == << chan, unconsumed, woken_by, disconnected >>

WorkerStates ==
    { "Idle", "WaitForFrameAdvance", "WaitForFrame", "ChooseBack",
      "WriteInstanceData", "SubmitRebuild", "WaitGpuIdle", "PublishSwap",
      "StoreIndex", "StoreShow", "Done" }

RenderStates == { "WaitIdle", "LoadIndex", "ClearShow", "Submit" }

\* The acceleration structures RayTracingRenderTask::new builds, in order:
\* the BLAS, then acceleration_structures[0] and [1].
BuildOrder == << "blas", "tlas0", "tlas1" >>

AllStructures == { BuildOrder[k] : k \in 1..Len(BuildOrder) }

\* `as usize` of a bool: false -> 0, true -> 1
AsUsize(b) == IF b THEN 1 ELSE 0

\* ------------------------------------------------------------------ Init
\* State after RayTracingRenderTask::new and run_worker's thread::spawn:
\* both TLAS copies built from the same instances, nothing in flight.
ProtocolInit ==
    /\ current_as_index = FALSE
    /\ show_current_index = TRUE
    /\ wpc = "Idle"
    /\ last_frame = 0
    /\ back_index = FALSE
    /\ waited_frame = 0
    /\ seen_frame = 0
    /\ cycles = 0
    /\ chan = 0
    /\ unconsumed = 0
    /\ woken_by = 0
    /\ disconnected = FALSE
    /\ rpc = "WaitIdle"
    /\ front_index = FALSE
    /\ current_frame = 0
    /\ gfxInFlight = {}
    /\ computeInFlight = {}
    /\ computeFrame = 0
    /\ instance_buffer = 0
    /\ tlas = [i \in {0, 1} |-> 0]
    /\ tlas_input = [i \in {0, 1} |-> "build_tlas"]
    /\ bpc = << "Done", "none" >>
    /\ buildInFlight = {}
    /\ built = AllStructures
    /\ handles = AllStructures

\* A chunk as Chunk::default() makes it (chunk.rs:39-46).
DefaultChunk == [visible |-> TRUE, voxels |-> [l \in {} |-> 0]]

\* Outcome variable before any world operation has been called.
NoRet == [panic |-> FALSE, val |-> "none"]

\* State after create_empty_chunks: every chunk of the grid is default, so
\* no chunk differs from Chunk::default().
EmptyWorld ==
    /\ inner = [g \in {} |-> DefaultChunk]
    /\ inserted = {}
    /\ op = "none"
    /\ arg = << 0, 0, 0 >>
    /\ ret = NoRet

Init == ProtocolInit /\ EmptyWorld

\* ------------------------------------------------- flights (GPU progress)
\* Flight::wait_for_frame(frame, None): returns once `frame` has retired.
FrameRetired(frame) == \A f \in gfxInFlight : f.frame # frame

\* Results wait_for_frame(frame, timeout) can return in the current state:
\* none while the frame is outstanding and the timeout is None (it blocks).
WaitOutcomes(frame, timeout) ==
    IF FrameRetired(frame) THEN { "Ok" }
    ELSE IF timeout = "None" THEN {}
    ELSE { "Timeout" }

\* Flight::wait_idle(): returns once nothing submitted is outstanding.
GraphicsIdle == gfxInFlight = {}
ComputeIdle == computeInFlight = {} /\ buildInFlight = {}

\* The graphics queue retires the oldest submitted frame.
GfxRetire ==
    /\ \E f \in gfxInFlight :
          /\ \A g \in gfxInFlight : f.frame <= g.frame
          /\ gfxInFlight' = gfxInFlight \ {f}
    /\ UNCHANGED << worldVars, buildVars, current_as_index, show_current_index, workerVars, chanVars,
                    renderVars, current_frame, computeVars, memVars >>

\* The compute queue retires a rebuild: the destination TLAS copy now holds
\* the instances of the generation that was in the instance buffer.
ComputeRetire ==
    /\ \E r \in computeInFlight :
          /\ computeInFlight' = computeInFlight \ {r}
          /\ tlas' = [tlas EXCEPT ![r.tlas] = r.gen]
          /\ tlas_input' = [tlas_input EXCEPT ![r.tlas] = "instance_buffer"]
    /\ UNCHANGED << worldVars, buildVars, current_as_index, show_current_index, workerVars, chanVars,
                    renderVars, gfxVars, computeFrame, instance_buffer >>

\* ------------------------------------------------- notification channel
\* The sender of the wake signal: a full slot absorbs further wakes.
Wake ==
    /\ ~disconnected
    /\ unconsumed < MaxWakes
    /\ chan' = IF chan < ChannelSlots THEN chan + 1 ELSE chan
    /\ unconsumed' = unconsumed + 1
    /\ UNCHANGED << worldVars, buildVars, current_as_index, show_current_index, workerVars, woken_by,
                    disconnected, renderVars, gfxVars, computeVars, memVars >>

\* The last Sender is dropped (process shutdown): buffered wakes stay.
Disconnect ==
    /\ ~disconnected
    /\ disconnected' = TRUE
    /\ UNCHANGED << worldVars, buildVars, current_as_index, show_current_index, workerVars, chan,
                    unconsumed, woken_by, renderVars, gfxVars, computeVars,
                    memVars >>

\* ------------------------------------------------- update worker
\* Idle: `while let Ok(()) = channel.recv()`
RecvPeek ==
    /\ wpc = "Idle"
    /\ chan > 0
    /\ cycles < MaxCycles
    /\ wpc' = "WaitForFrameAdvance"
    /\ UNCHANGED << worldVars, buildVars, current_as_index, show_current_index, last_frame,
                    back_index, waited_frame, seen_frame, cycles, chanVars,
                    renderVars, gfxVars, computeVars, memVars >>

Recv ==
    /\ wpc = "Idle"
    /\ chan > 0
    /\ cycles < MaxCycles
    /\ chan' = chan - 1
    /\ unconsumed' = 0
    /\ woken_by' = unconsumed
    /\ wpc' = "WaitForFrameAdvance"
    /\ UNCHANGED << worldVars, buildVars, current_as_index, show_current_index, last_frame,
                    back_index, waited_frame, seen_frame, cycles, disconnected,
                    renderVars, gfxVars, computeVars, memVars >>

\* `channel.recv()` returns Err once the channel is disconnected and empty:
\* the `while let` ends and the thread's closure returns.
RecvDisconnectedUndrained ==
    /\ wpc = "Idle"
    /\ disconnected
    /\ wpc' = "Done"
    /\ UNCHANGED << worldVars, buildVars, current_as_index, show_current_index, last_frame,
                    back_index, waited_frame, seen_frame, cycles, chanVars,
                    renderVars, gfxVars, computeVars, memVars >>

RecvDisconnected ==
    /\ wpc = "Idle"
    /\ disconnected
    /\ chan = 0
    /\ wpc' = "Done"
    /\ UNCHANGED << worldVars, buildVars, current_as_index, show_current_index, last_frame,
                    back_index, waited_frame, seen_frame, cycles, chanVars,
                    renderVars, gfxVars, computeVars, memVars >>

\* WaitForFrameAdvance: `while last_frame == graphics_flight.current_frame()`
\* (the loop body sleeps and polls again: no state change while equal)
PollFrameNoGate ==
    /\ wpc = "WaitForFrameAdvance"
    /\ seen_frame' = current_frame
    /\ wpc' = "WaitForFrame"
    /\ UNCHANGED << worldVars, buildVars, current_as_index, show_current_index, last_frame,
                    back_index, waited_frame, cycles, chanVars,
                    renderVars, gfxVars, computeVars, memVars >>

PollFrame ==
    /\ wpc = "WaitForFrameAdvance"
    /\ last_frame # current_frame
    /\ seen_frame' = current_frame
    /\ wpc' = "WaitForFrame"
    /\ UNCHANGED << worldVars, buildVars, current_as_index, show_current_index, last_frame,
                    back_index, waited_frame, cycles, chanVars,
                    renderVars, gfxVars, computeVars, memVars >>

\* `graphics_flight.wait_for_frame(last_frame, None).unwrap()`: Ok once the
\* frame has retired; with a timeout the call may also give up with an error,
\* which the unwrap turns into a panic of the worker thread.
WaitForFrame ==
    /\ wpc = "WaitForFrame"
    /\ \E outcome \in WaitOutcomes(last_frame, WaitTimeout) :
          wpc' = IF outcome = "Ok" THEN "ChooseBack" ELSE "Panicked"
    /\ waited_frame' = last_frame
    /\ UNCHANGED << worldVars, buildVars, current_as_index, show_current_index, last_frame,
                    back_index, seen_frame, cycles, chanVars,
                    renderVars, gfxVars, computeVars, memVars >>

\* `let back_index = !current_as_index.load(Ordering::Relaxed)`
ChooseBackSame ==
    /\ wpc = "ChooseBack"
    /\ back_index' = current_as_index
    /\ wpc' = "WriteInstanceData"
    /\ UNCHANGED << worldVars, buildVars, current_as_index, show_current_index, last_frame,
                    waited_frame, seen_frame, cycles, chanVars,
                    renderVars, gfxVars, computeVars, memVars >>

ChooseBack ==
    /\ wpc = "ChooseBack"
    /\ back_index' = ~current_as_index
    /\ wpc' = "WriteInstanceData"
    /\ UNCHANGED << worldVars, buildVars, current_as_index, show_current_index, last_frame,
                    waited_frame, seen_frame, cycles, chanVars,
                    renderVars, gfxVars, computeVars, memVars >>

\* task_graph.execute -> UpdateAccelerationStructureTask::execute, host part:
\* fresh instance records are written into the instance buffer.
WriteInstanceData ==
    /\ wpc = "WriteInstanceData"
    /\ instance_buffer' = cycles + 1
    /\ wpc' = "SubmitRebuild"
    /\ UNCHANGED << worldVars, buildVars, current_as_index, show_current_index, last_frame,
                    back_index, waited_frame, seen_frame, cycles, chanVars,
                    renderVars, gfxVars, computeVars, tlas, tlas_input >>

\* task_graph.execute, device part: the recorded update of
\* acceleration_structures[back_index] is submitted on the compute flight.
SubmitRebuildFront ==
    /\ wpc = "SubmitRebuild"
    /\ computeInFlight' = computeInFlight \cup
          { [id |-> computeFrame, tlas |-> AsUsize(~back_index),
             gen |-> instance_buffer] }
    /\ computeFrame' = computeFrame + 1
    /\ wpc' = "WaitGpuIdle"
    /\ UNCHANGED << worldVars, buildVars, current_as_index, show_current_index, last_frame,
                    back_index, waited_frame, seen_frame, cycles, chanVars,
                    renderVars, gfxVars, memVars >>

SubmitRebuild ==
    /\ wpc = "SubmitRebuild"
    /\ computeInFlight' = computeInFlight \cup
          { [id |-> computeFrame, tlas |-> AsUsize(back_index),
             gen |-> instance_buffer] }
    /\ computeFrame' = computeFrame + 1
    /\ wpc' = "WaitGpuIdle"
    /\ UNCHANGED << worldVars, buildVars, current_as_index, show_current_index, last_frame,
                    back_index, waited_frame, seen_frame, cycles, chanVars,
                    renderVars, gfxVars, memVars >>

\* `resources.flight(compute_flight_id).unwrap().wait_idle().unwrap()`
WaitGpuIdleNoWait ==
    /\ wpc = "WaitGpuIdle"
    /\ wpc' = "PublishSwap"
    /\ UNCHANGED << worldVars, buildVars, current_as_index, show_current_index, last_frame,
                    back_index, waited_frame, seen_frame, cycles, chanVars,
                    renderVars, gfxVars, computeVars, memVars >>

WaitGpuIdle ==
    /\ wpc = "WaitGpuIdle"
    /\ ComputeIdle
    /\ wpc' = "PublishSwap"
    /\ UNCHANGED << worldVars, buildVars, current_as_index, show_current_index, last_frame,
                    back_index, waited_frame, seen_frame, cycles, chanVars,
                    renderVars, gfxVars, computeVars, memVars >>

\* PublishSwap, first statement: `last_frame = graphics_flight.current_frame()`
PublishSwapSkipped ==
    /\ wpc = "PublishSwap"
    /\ last_frame' = current_frame
    /\ wpc' = "Idle"
    /\ UNCHANGED << worldVars, buildVars, current_as_index, show_current_index, back_index,
                    waited_frame, seen_frame, cycles, chanVars,
                    renderVars, gfxVars, computeVars, memVars >>

PublishSwap ==
    /\ wpc = "PublishSwap"
    /\ last_frame' = current_frame
    /\ wpc' = "StoreIndex"
    /\ UNCHANGED << worldVars, buildVars, current_as_index, show_current_index, back_index,
                    waited_frame, seen_frame, cycles, chanVars,
                    renderVars, gfxVars, computeVars, memVars >>

\* `current_as_index.store(back_index, Ordering::Relaxed)`
StoreIndex ==
    /\ wpc = "StoreIndex"
    /\ current_as_index' = back_index
    /\ wpc' = "StoreShow"
    /\ UNCHANGED << worldVars, buildVars, show_current_index, last_frame, back_index,
                    waited_frame, seen_frame, cycles, chanVars,
                    renderVars, gfxVars, computeVars, memVars >>

\* `show_current_index.store(true, Ordering::Relaxed)`; the iteration ends
\* and the worker is back at channel.recv().
StoreShow ==
    /\ wpc = "StoreShow"
    /\ show_current_index' = TRUE
    /\ cycles' = cycles + 1
    /\ wpc' = "Idle"
    /\ UNCHANGED << worldVars, buildVars, current_as_index, last_frame, back_index,
                    waited_frame, seen_frame, chanVars,
                    renderVars, gfxVars, computeVars, memVars >>

Worker ==
    \/ Recv
    \/ RecvDisconnected
    \/ PollFrame
    \/ WaitForFrame
    \/ ChooseBack
    \/ WriteInstanceData
    \/ SubmitRebuild
    \/ WaitGpuIdle
    \/ PublishSwap
    \/ StoreIndex
    \/ StoreShow

\* ------------------------------------------------- render thread
\* RedrawRequested: `flight(graphics_flight_id).wait_idle()` before execute
RenderWaitIdleOnWorker ==
    /\ rpc = "WaitIdle"
    /\ GraphicsIdle
    /\ wpc = "Idle"
    /\ current_frame < MaxFrames
    /\ rpc' = "LoadIndex"
    /\ UNCHANGED << worldVars, buildVars, current_as_index, show_current_index, workerVars, chanVars,
                    front_index, gfxVars, computeVars, memVars >>

RenderWaitIdle ==
    /\ rpc = "WaitIdle"
    /\ GraphicsIdle
    /\ current_frame < MaxFrames
    /\ rpc' = "LoadIndex"
    /\ UNCHANGED << worldVars, buildVars, current_as_index, show_current_index, workerVars, chanVars,
                    front_index, gfxVars, computeVars, memVars >>

\* execute: `let front_index = self.current_as_index.load(Ordering::Relaxed)`
RenderLoadIndexAndFlip ==
    /\ rpc = "LoadIndex"
    /\ front_index' = current_as_index
    /\ current_as_index' = ~current_as_index
    /\ rpc' = "ClearShow"
    /\ UNCHANGED << worldVars, buildVars, show_current_index, workerVars, chanVars,
                    gfxVars, computeVars, memVars >>

RenderLoadIndex ==
    /\ rpc = "LoadIndex"
    /\ front_index' = current_as_index
    /\ rpc' = "ClearShow"
    /\ UNCHANGED << worldVars, buildVars, current_as_index, show_current_index, workerVars, chanVars,
                    gfxVars, computeVars, memVars >>

\* execute: `self.show_current_index.store(false, Ordering::Relaxed)`
RenderClearShowWrongFlag ==
    /\ rpc = "ClearShow"
    /\ current_as_index' = FALSE
    /\ rpc' = "Submit"
    /\ UNCHANGED << worldVars, buildVars, show_current_index, workerVars, chanVars, front_index,
                    gfxVars, computeVars, memVars >>

RenderClearShow ==
    /\ rpc = "ClearShow"
    /\ show_current_index' = FALSE
    /\ rpc' = "Submit"
    /\ UNCHANGED << worldVars, buildVars, current_as_index, workerVars, chanVars, front_index,
                    gfxVars, computeVars, memVars >>

\* execute: push constants bind acceleration_structure_ids[front_index];
\* trace_rays is recorded, the frame is submitted and the flight's frame
\* counter advances.
RenderSubmit ==
    /\ rpc = "Submit"
    /\ gfxInFlight' = gfxInFlight \cup
          { [frame |-> current_frame, tlas |-> AsUsize(front_index)] }
    /\ current_frame' = current_frame + 1
    /\ rpc' = "WaitIdle"
    /\ UNCHANGED << worldVars, buildVars, current_as_index, show_current_index, workerVars, chanVars,
                    front_index, computeVars, memVars >>

Render ==
    \/ RenderWaitIdle
    \/ RenderLoadIndex
    \/ RenderClearShow
    \/ RenderSubmit

\* ------------------------------------------------- specification
Next ==
    \/ Wake
    \/ Disconnect
    \/ Worker
    \/ Render
    \/ GfxRetire
    \/ ComputeRetire

Spec == Init /\ [][Next]_vars

\* The worker thread, the render thread and both GPU queues keep running:
\* each takes its next step when it can. Wakes and the disconnect are the
\* environment's and carry no fairness.
LiveSpec ==
    /\ Spec
    /\ WF_vars(Worker)
    /\ WF_vars(Render)
    /\ WF_vars(GfxRetire)
    /\ WF_vars(ComputeRetire)

TypeOK ==
    /\ current_as_index \in BOOLEAN
    /\ show_current_index \in BOOLEAN
    /\ wpc \in WorkerStates \cup { "Panicked" }
    /\ disconnected \in BOOLEAN
    /\ rpc \in RenderStates
    /\ back_index \in BOOLEAN
    /\ front_index \in BOOLEAN
    /\ last_frame \in 0..MaxFrames
    /\ current_frame \in 0..MaxFrames
    /\ cycles \in 0..MaxCycles
    /\ chan \in 0..ChannelSlots
    /\ unconsumed \in 0..MaxWakes
    /\ woken_by \in 0..MaxWakes

\* ================================================= claims
\* The worker is writing or rebuilding TLAS copy back_index: from the choice
\* of back_index until the compute flight is idle again.
WorkerMutatesBack ==
    \/ wpc \in { "WriteInstanceData", "SubmitRebuild" }
    \/ wpc = "WaitGpuIdle" /\ ~ComputeIdle

\* C1: while the worker is writing or rebuilding TLAS copy b, no render frame
\* that loaded front index b is still unretired on the graphics flight.
C1_NeverMutatesBoundCopy ==
    WorkerMutatesBack =>
        \A f \in gfxInFlight : f.tlas # AsUsize(back_index)

\* C2 (P6): from WriteInstanceData up to the store of PublishSwap the index
\* held in current_as_index differs from the worker's back_index.
C2_BackDiffersFromPublished ==
    wpc \in { "WriteInstanceData", "SubmitRebuild", "WaitGpuIdle",
              "PublishSwap", "StoreIndex" }
        => back_index # current_as_index

C2_Witness ==
    /\ wpc = "WaitGpuIdle"
    /\ rpc = "Submit"
    /\ cycles >= 1
    /\ back_index = FALSE

\* C3: the store into current_as_index happens only when the compute flight
\* is idle and the back copy holds the data written in this cycle, and a frame
\* that loads the index binds a copy with no rebuild outstanding.
C3_PublishAfterRetire ==
    /\ [][ (wpc = "StoreIndex" /\ wpc' = "StoreShow") =>
              /\ ComputeIdle
              /\ tlas[AsUsize(back_index)] = instance_buffer
              /\ instance_buffer = cycles + 1 ]_vars
    /\ [][ (rpc = "LoadIndex" /\ rpc' = "ClearShow") =>
              \A r \in computeInFlight : r.tlas # AsUsize(front_index') ]_vars

C3_Witness ==
    /\ cycles >= 1
    /\ rpc = "ClearShow"
    /\ front_index = TRUE
    /\ tlas[1] = 1

\* C4 (P7): past the poll loop the frame counter has advanced beyond the
\* baseline last_frame, and every baseline recorded at PublishSwap is
\* strictly greater than the one before.
C4_FrameAdvanceGating ==
    /\ [](wpc \in { "WaitForFrame", "ChooseBack", "WriteInstanceData",
                    "SubmitRebuild", "WaitGpuIdle", "PublishSwap" }
             => current_frame > last_frame)
    /\ [][ (wpc = "PublishSwap" /\ wpc' = "StoreIndex") =>
              last_frame' > last_frame ]_vars
    /\ [][ last_frame' >= last_frame ]_vars

C4_Witness ==
    /\ cycles >= 1
    /\ wpc = "WriteInstanceData"
    /\ last_frame >= 1

\* C5 as claimed: the frame the worker waited for is the value the counter
\* advanced to.
C5_WaitsForAdvancedFrame ==
    wpc = "ChooseBack" => waited_frame = seen_frame

\* C5 amended: the frame the worker waited for is the baseline last_frame,
\* which is older than the value the counter advanced to, and the wait is
\* left only once that frame has retired: it never ends by a timeout.
C5_WaitsForBaselineFrame ==
    /\ wpc # "Panicked"
    /\ wpc = "ChooseBack" =>
        /\ waited_frame = last_frame
        /\ waited_frame < seen_frame
        /\ FrameRetired(last_frame)

C5_Witness ==
    /\ wpc = "ChooseBack"
    /\ cycles >= 1
    /\ waited_frame >= 1
    /\ gfxInFlight # {}

\* C6: current_as_index starts false and is flipped exactly once per cycle:
\* after k completed cycles it is (k mod 2 = 1).
C6_FlipPerCycle ==
    LET k == IF wpc = "StoreShow" THEN cycles + 1 ELSE cycles
    IN  current_as_index = (k % 2 = 1)

C6_Witness ==
    /\ cycles = 2
    /\ wpc = "Idle"
    /\ current_as_index = FALSE

\* C7: at most one rebuild is outstanding on the compute flight.
C7_OneRebuildOutstanding ==
    /\ Cardinality(computeInFlight) <= 1
    /\ wpc = "SubmitRebuild" => ComputeIdle

C7_Witness ==
    /\ Cardinality(computeInFlight) = 1
    /\ cycles >= 1
    /\ chan = 1

\* C8: the render task's load binds the index it read and leaves
\* current_as_index alone; only the worker's StoreIndex step changes it.
C8_SingleWriter ==
    /\ [][ (rpc = "LoadIndex" /\ rpc' = "ClearShow") =>
              /\ front_index' = current_as_index
              /\ current_as_index' = current_as_index ]_vars
    /\ [][ rpc' # rpc => current_as_index' = current_as_index ]_vars
    /\ [][ current_as_index' # current_as_index =>
              (wpc = "StoreIndex" /\ wpc' = "StoreShow") ]_vars

C8_Witness ==
    /\ rpc = "Submit"
    /\ front_index = TRUE
    /\ current_as_index = FALSE

\* C9: in every worker state the render thread can take its next step unless
\* it is waiting for its own graphics flight; the index it reads is a boolean.
RenderBlockedOnOwnFlight ==
    /\ rpc = "WaitIdle"
    /\ ~GraphicsIdle \/ current_frame >= MaxFrames

C9_RenderNeverBlocksOnWorker ==
    /\ current_as_index \in BOOLEAN
    /\ wpc \in WorkerStates
    /\ (ENABLED Render) \/ RenderBlockedOnOwnFlight
    /\ (rpc = "WaitIdle" /\ ~GraphicsIdle) => ENABLED GfxRetire

C9_Witness ==
    /\ wpc = "WaitGpuIdle"
    /\ ~ComputeIdle
    /\ rpc = "WaitIdle"
    /\ ENABLED RenderWaitIdle

WorkerOrder ==
    { << "Idle", "WaitForFrameAdvance" >>,
      << "WaitForFrameAdvance", "WaitForFrame" >>,
      << "WaitForFrame", "ChooseBack" >>,
      << "ChooseBack", "WriteInstanceData" >>,
      << "WriteInstanceData", "SubmitRebuild" >>,
      << "SubmitRebuild", "WaitGpuIdle" >>,
      << "WaitGpuIdle", "PublishSwap" >>,
      << "PublishSwap", "StoreIndex" >>,
      << "StoreIndex", "StoreShow" >>,
      << "StoreShow", "Idle" >>,
      << "Idle", "Done" >> }

\* The render thread has stopped completing frames while the worker polls:
\* the counter equals the baseline and no further frame can be submitted.
FramesStopped ==
    /\ current_frame = last_frame
    /\ current_frame >= MaxFrames

\* C11: a cycle begun by a received wake moves through the worker's states
\* in order and, with the render thread and the GPU making progress, returns
\* to Idle; while the frame counter stays at the baseline the worker stays in
\* WaitForFrameAdvance and publishes nothing.
C11_CycleRunsToIdle ==
    /\ [][ wpc' # wpc => << wpc, wpc' >> \in WorkerOrder ]_vars
    /\ (wpc = "WaitForFrameAdvance") ~> (wpc = "Idle" \/ FramesStopped)
    /\ [][ (wpc = "WaitForFrameAdvance" /\ current_frame = last_frame
              /\ current_frame' = current_frame)
           => (wpc' = "WaitForFrameAdvance"
                 /\ current_as_index' = current_as_index) ]_vars

C11_Witness ==
    /\ wpc = "Idle"
    /\ cycles = 2
    /\ woken_by >= 1
    /\ current_frame < MaxFrames

C11_WitnessStopped ==
    /\ wpc = "WaitForFrameAdvance"
    /\ FramesStopped

\* ------------------------------------------------- C12
\* C12: the loop ends only from Idle with the channel disconnected and
\* drained; a buffered wake is still received after the disconnect; a cycle
\* in progress runs on in order; after the exit the worker writes nothing.
C12_ExitOnDisconnect ==
    /\ [][ (wpc' = "Done" /\ wpc # "Done") =>
              (wpc = "Idle" /\ disconnected /\ chan = 0) ]_vars
    /\ [](wpc = "Idle" /\ disconnected /\ chan = 0 => ENABLED RecvDisconnected)
    /\ [](wpc = "Idle" /\ ~(disconnected /\ chan = 0) => ~ENABLED RecvDisconnected)
    /\ [](wpc = "Idle" /\ disconnected /\ chan > 0 /\ cycles < MaxCycles
             => ENABLED Recv)
    /\ [][ (disconnected /\ wpc \notin { "Idle", "Done" } /\ wpc' # wpc) =>
              (<< wpc, wpc' >> \in WorkerOrder /\ wpc' # "Done") ]_vars
    /\ [][ wpc = "Done" =>
              /\ wpc' = "Done"
              /\ current_as_index' = current_as_index
              /\ show_current_index' \in { show_current_index, FALSE }
              /\ memVars' = memVars
              /\ computeVars' = computeVars ]_vars

C12_Witness ==
    /\ wpc = "Done"
    /\ cycles >= 1
    /\ woken_by >= 1
    /\ rpc = "Submit"

\* ------------------------------------------------- C13
\* Contents of the instance memory TLAS copy i was last built from: the
\* private buffer of build_tlas (the initial instances, generation 0) or the
\* instance buffer of the update task.
InstanceMemory(i) ==
    IF tlas_input[i] = "instance_buffer" THEN instance_buffer ELSE 0

\* C13 as claimed: the write of a cycle leaves the instance memory backing
\* the front copy unchanged, and after one cycle the two copies' instance
\* memories differ.
C13_FrontInstanceMemoryUntouched ==
    /\ [][ (wpc = "WriteInstanceData" /\ wpc' = "SubmitRebuild") =>
              InstanceMemory(AsUsize(~back_index))'
                 = InstanceMemory(AsUsize(~back_index)) ]_vars
    /\ [](wpc = "Idle" /\ cycles = 1 => InstanceMemory(0) # InstanceMemory(1))

\* C13 amended: there is one instance buffer; it is written only while no
\* rebuild is outstanding, only the back copy is rebuilt from it and the
\* front copy's contents stay as they are, so after a cycle the two copies'
\* contents differ.
C13_SharedBufferBackCopyOnly ==
    /\ [][ instance_buffer' # instance_buffer =>
              (ComputeIdle /\ tlas' = tlas /\ wpc = "WriteInstanceData") ]_vars
    /\ [][ \A i \in {0, 1} : tlas'[i] # tlas[i] =>
              (i = AsUsize(back_index) /\ i # AsUsize(current_as_index)
                 /\ tlas'[i] = instance_buffer) ]_vars
    /\ [](wpc = "Idle" /\ cycles >= 1 => tlas[0] # tlas[1])

C13_Witness ==
    /\ wpc = "SubmitRebuild"
    /\ cycles = 1
    /\ instance_buffer = 2
    /\ tlas_input[1] = "instance_buffer"
    /\ tlas = (0 :> 0 @@ 1 :> 1)

\* ======================================================================
\* Voxel world: src/src/world/chunk.rs
\* ======================================================================
\* Vectors (IVec3, UVec3) are triples << x, y, z >>.

\* The amount of voxels per chunk dimension.
CHUNK_WIDTH == 64
\* The amount of chunks in the world's X, Y and Z axes.
WORLD_WIDTH == 64
WORLD_HEIGHT == 64
WORLD_DEPTH == 64

\* ------------------------------------------------------------ world bounds
\* Voxels the model may insert.
MaxVoxels == 3

\* Global coordinates offered to insert_voxel, contains and get_voxel:
\* two in chunk (1,0,0), one each in chunks (2,0,0), (-1,-1,-1) and
\* (1,2,-4), and two outside the bounds.
InsidePositions ==
    { << 70, 5, 5 >>, << 64, 0, 0 >>, << 130, 0, 0 >>, << -1, -1, -1 >>,
      << 120, 129, -215 >> }

OutsidePositions == { << 4096, 0, 0 >>, << 0, -4096, 0 >> }

Positions == InsidePositions \cup OutsidePositions

\* material_index values of the voxels offered to insert_voxel.
Materials == { 1, 2 }

\* Chunks whose visibility the model changes.
VisibilityTargets == { << 1, 0, 0 >>, << 3, 0, 0 >> }

\* Global coordinates of the voxels in the worlds to_instances is called on:
\* two in chunk (1,0,0), one each in chunks (2,0,0), (3,0,0), (0,0,0) and
\* (-1,-1,-1).
InstancePositions ==
    { << 70, 5, 5 >>, << 64, 0, 0 >>, << 130, 0, 0 >>, << 200, 2, 4 >>,
      << 1, 1, 1 >>, << -1, -1, -1 >> }

\* Chunks that may be hidden in those worlds.
HiddenTargets == { << 1, 0, 0 >> }

\* Arguments offered to Chunks::to_instances.
Lods == { 0, 1, 2 }
Origins == { << 0, 0, 0 >>, << -1, -1, -1 >> }
MaxCounts == { 1, 2, 1000 }

\* Per-axis values of the coordinates offered to translation_to_position.
AxisValues ==
    { -4096, -4095, -215, -65, -64, -1, 0, 5, 63, 64, 70, 129, 4095, 4096 }

\* -------------------------------------------------------------- arithmetic
\* i32 `/`: the quotient truncated toward zero.
TruncDiv(a, b) == IF a >= 0 THEN a \div b ELSE -((-a) \div b)

\* i32::isqrt of a non-negative value: the square root rounded down.
isqrt(n) == CHOOSE r \in 0..n : r * r <= n /\ (r + 1) * (r + 1) > n

\* IVec3::distance_squared
distance_squared(a, b) ==
    (a[1] - b[1]) * (a[1] - b[1]) + (a[2] - b[2]) * (a[2] - b[2])
        + (a[3] - b[3]) * (a[3] - b[3])

\* ------------------------------------------------------------------ bounds
\* Bounds::inside: both ends are excluded.
\* Mutation: both ends of the range are accepted.
inside_inclusive(bounds, value) == value >= bounds[1] /\ value <= bounds[2]

inside(bounds, value) == value > bounds[1] /\ value < bounds[2]

X_BOUNDS == << -WORLD_WIDTH * CHUNK_WIDTH, WORLD_WIDTH * CHUNK_WIDTH >>
Y_BOUNDS == << -WORLD_HEIGHT * CHUNK_WIDTH, WORLD_HEIGHT * CHUNK_WIDTH >>
Z_BOUNDS == << -WORLD_DEPTH * CHUNK_WIDTH, WORLD_DEPTH * CHUNK_WIDTH >>

\* Mutation: only the x axis is checked.
in_bounds_x_only(position) == inside(X_BOUNDS, position[1])

in_bounds(position) ==
    /\ inside(X_BOUNDS, position[1])
    /\ inside(Y_BOUNDS, position[2])
    /\ inside(Z_BOUNDS, position[3])

\* Keys of the map create_empty_chunks builds: -WORLD..WORLD on each axis,
\* upper end excluded.
InGrid(grid_position) ==
    /\ grid_position[1] >= -WORLD_WIDTH /\ grid_position[1] < WORLD_WIDTH
    /\ grid_position[2] >= -WORLD_HEIGHT /\ grid_position[2] < WORLD_HEIGHT
    /\ grid_position[3] >= -WORLD_DEPTH /\ grid_position[3] < WORLD_DEPTH

\* ------------------------------------------------- translation_to_position
\* Outcome of a call that panicked.
Panic == [panic |-> TRUE, val |-> "panic"]

\* Mutation: the quotient without the shift of negative coordinates.
GridAxisUnshifted(x) == TruncDiv(x, CHUNK_WIDTH)

\* One component of grid_position (chunk.rs:348-352).
GridAxis(x) ==
    TruncDiv(IF x < 0 THEN -CHUNK_WIDTH + x + 1 ELSE x, CHUNK_WIDTH)

\* translation_to_position: the bounds check, the chunk and the local
\* coordinate, and the six assertions on the local coordinate.
translation_to_position(position) ==
    LET grid_position == [i \in 1..3 |-> GridAxis(position[i])]
        local == [i \in 1..3 |-> position[i] - grid_position[i] * CHUNK_WIDTH]
    IN  IF ~in_bounds(position) THEN Panic
        ELSE IF \E i \in 1..3 : local[i] < 0 \/ ~(local[i] <= CHUNK_WIDTH)
             THEN Panic
        ELSE [panic |-> FALSE,
              val |-> [grid_position |-> grid_position,
                       local_position |-> local]]

\* --------------------------------------------------------------- the map
\* A ChunksInner is held as the chunks that differ from Chunk::default():
\* create_empty_chunks stores a default chunk under every key of the grid.

\* chunks.get(&grid_position) for a key of the grid.
ChunkAt(chunks, grid_position) ==
    IF grid_position \in DOMAIN chunks THEN chunks[grid_position]
    ELSE DefaultChunk

\* The map after the chunk under grid_position has become `chunk`.
WithChunk(chunks, grid_position, chunk) ==
    LET keys == IF chunk = DefaultChunk
                THEN DOMAIN chunks \ { grid_position }
                ELSE DOMAIN chunks \cup { grid_position }
    IN  [g \in keys |-> IF g = grid_position THEN chunk ELSE chunks[g]]

\* A HostVoxel as Chunks::new makes it (chunk.rs:416-419).
HostVoxel(material_index) == [scale |-> 1, material_index |-> material_index]

\* Mutation: the insert without the contains_key check (it overwrites).
ChunkInsertOverwrite(chunk, position, voxel) ==
    IF \E i \in 1..3 : position[i] >= CHUNK_WIDTH THEN Panic
    ELSE [panic |-> FALSE,
          val |-> position \notin DOMAIN chunk.voxels,
          chunk |-> [chunk EXCEPT !.voxels =
                        [l \in DOMAIN chunk.voxels \cup { position } |->
                            IF l = position THEN voxel ELSE chunk.voxels[l]]]]

\* Chunk::insert: the returned bool and the chunk afterwards.
ChunkInsert(chunk, position, voxel) ==
    IF \E i \in 1..3 : position[i] >= CHUNK_WIDTH THEN Panic
    ELSE IF position \in DOMAIN chunk.voxels
         THEN [panic |-> FALSE, val |-> FALSE, chunk |-> chunk]
    ELSE [panic |-> FALSE,
          val |-> TRUE,
          chunk |-> [chunk EXCEPT !.voxels =
                        [l \in DOMAIN chunk.voxels \cup { position } |->
                            IF l = position THEN voxel ELSE chunk.voxels[l]]]]

\* Chunks::insert_voxel(chunks, position, voxel): the outcome and the map
\* afterwards.
insert_voxel(chunks, position, voxel) ==
    LET t == translation_to_position(position)
        r == ChunkInsert(ChunkAt(chunks, t.val.grid_position),
                         t.val.local_position, voxel)
    IN  IF t.panic \/ ~InGrid(t.val.grid_position) \/ r.panic
        THEN [panic |-> TRUE, val |-> "panic", chunks |-> chunks]
        ELSE [panic |-> FALSE,
              val |-> IF r.val THEN << "Some", t.val.grid_position >>
                      ELSE << "None" >>,
              chunks |-> WithChunk(chunks, t.val.grid_position, r.chunk)]

\* Chunks::contains(&self, position)
contains(chunks, position) ==
    LET t == translation_to_position(position)
    IN  IF t.panic \/ ~InGrid(t.val.grid_position) THEN Panic
        ELSE [panic |-> FALSE,
              val |-> t.val.local_position \in
                        DOMAIN ChunkAt(chunks, t.val.grid_position).voxels]

\* Chunks::get_voxel(&self, position)
get_voxel(chunks, position) ==
    LET t == translation_to_position(position)
        voxels == ChunkAt(chunks, t.val.grid_position).voxels
    IN  IF t.panic \/ ~InGrid(t.val.grid_position) THEN Panic
        ELSE [panic |-> FALSE,
              val |-> IF t.val.local_position \in DOMAIN voxels
                      THEN << "Some", voxels[t.val.local_position] >>
                      ELSE << "None" >>]

\* Mutation: the chunk is replaced by an empty one with the new visibility.
set_chunk_visibility_reset(chunks, grid_position, visible) ==
    IF ~InGrid(grid_position)
    THEN [panic |-> TRUE, val |-> "panic", chunks |-> chunks]
    ELSE [panic |-> FALSE,
          val |-> "unit",
          chunks |-> WithChunk(chunks, grid_position,
                        [DefaultChunk EXCEPT !.visible = visible])]

\* Chunks::set_chunk_visibility(&mut self, grid_position, visible)
set_chunk_visibility(chunks, grid_position, visible) ==
    IF ~InGrid(grid_position)
    THEN [panic |-> TRUE, val |-> "panic", chunks |-> chunks]
    ELSE [panic |-> FALSE,
          val |-> "unit",
          chunks |-> WithChunk(chunks, grid_position,
                        [ChunkAt(chunks, grid_position)
                            EXCEPT !.visible = visible])]

\* ------------------------------------------------------- world operations
\* The call stack unwinds on a panic: nothing runs after it.
Running == ~ret.panic

\* A call of insert_voxel on the world.
InsertVoxelAt(position, voxel) ==
    LET r == insert_voxel(inner, position, voxel)
    IN  /\ Running
        /\ op' = "insert_voxel"
        /\ arg' = position
        /\ ret' = [panic |-> r.panic, val |-> r.val]
        /\ inner' = r.chunks
        /\ inserted' = IF r.panic THEN inserted ELSE inserted \cup { position }
        /\ UNCHANGED protocolVars

InsertVoxel ==
    \E position \in Positions, m \in Materials :
        /\ position \in inserted \/ Cardinality(inserted) < MaxVoxels
        /\ InsertVoxelAt(position, HostVoxel(m))

Contains ==
    \E position \in Positions :
        /\ Running
        /\ op' = "contains"
        /\ arg' = position
        /\ ret' = contains(inner, position)
        /\ UNCHANGED << inner, inserted, protocolVars >>

GetVoxel ==
    \E position \in Positions :
        /\ Running
        /\ op' = "get_voxel"
        /\ arg' = position
        /\ ret' = get_voxel(inner, position)
        /\ UNCHANGED << inner, inserted, protocolVars >>

SetChunkVisibility ==
    \E grid_position \in VisibilityTargets, visible \in BOOLEAN :
        LET r == set_chunk_visibility(inner, grid_position, visible)
        IN  /\ Running
            /\ op' = "set_chunk_visibility"
            /\ arg' = << grid_position, visible >>
            /\ ret' = [panic |-> r.panic, val |-> r.val]
            /\ inner' = r.chunks
            /\ UNCHANGED << inserted, protocolVars >>

WorldNext ==
    \/ InsertVoxel
    \/ Contains
    \/ GetVoxel
    \/ SetChunkVisibility

\* The world operations called in any order on the world create_empty_chunks
\* leaves.
WorldSpec == Init /\ [][WorldNext]_vars

\* ----------------------------------------- translation as a pure function
\* An empty world and a coordinate to translate.
TranslateInit ==
    /\ ProtocolInit
    /\ inner = [g \in {} |-> DefaultChunk]
    /\ inserted = {}
    /\ op = "none"
    /\ arg \in AxisValues \X AxisValues \X AxisValues
    /\ ret = NoRet

\* Chunks::translation_to_position(&arg)
Translate ==
    /\ op = "none"
    /\ op' = "translation_to_position"
    /\ ret' = translation_to_position(arg)
    /\ UNCHANGED << arg, inner, inserted, protocolVars >>

\* Chunks::insert_voxel(chunks, arg, voxel) on the empty world, as in
\* test::chunks_insert.
InsertTranslated ==
    /\ op = "translation_to_position"
    /\ InsertVoxelAt(arg, HostVoxel(1))

TranslateNext == Translate \/ InsertTranslated

TranslateSpec == TranslateInit /\ [][TranslateNext]_vars

\* ------------------------------------------------------------ to_instances
\* The orders in which a HashMap holding the keys S may iterate: every
\* sequence that visits each key once.
RECURSIVE IterationOrders(_)
IterationOrders(S) ==
    IF S = {} THEN { << >> }
    ELSE UNION { { << k >> \o rest : rest \in IterationOrders(S \ { k }) } :
                    k \in S }

\* 2u32.pow(lod)
lod_exponent(lod) == 2 ^ lod

\* (0..lod).map(|sublod| sublod / 2.0).sum(), counted in halves.
offset_halves(lod) == (lod * (lod - 1)) \div 2

\* Mutation: the filter looks at the x coordinate only.
ChunkToInstancesXOnly(chunk, lod, grid_position, order) ==
    LET keep(l) == l[1] % lod_exponent(lod) = 0
        kept == SelectSeq(order, keep)
    IN  [k \in 1..Len(kept) |->
            [instance_custom_index |-> chunk.voxels[kept[k]].material_index,
             mask |-> IF chunk.visible THEN 255 ELSE 0,
             scale |-> chunk.voxels[kept[k]].scale * lod_exponent(lod),
             translation |->
                [i \in 1..3 |->
                    2 * (CHUNK_WIDTH * grid_position[i] + kept[k][i])
                        + offset_halves(lod)]]]

\* Mutation: the translation is the local coordinate, without the chunk's
\* corner.
ChunkToInstancesLocal(chunk, lod, grid_position, order) ==
    LET keep(l) == \A i \in 1..3 : l[i] % lod_exponent(lod) = 0
        kept == SelectSeq(order, keep)
    IN  [k \in 1..Len(kept) |->
            [instance_custom_index |-> chunk.voxels[kept[k]].material_index,
             mask |-> IF chunk.visible THEN 255 ELSE 0,
             scale |-> chunk.voxels[kept[k]].scale * lod_exponent(lod),
             translation |->
                [i \in 1..3 |-> 2 * kept[k][i] + offset_halves(lod)]]]

\* Chunk::to_instances: the voxels in iteration order `order`, those with a
\* local coordinate not divisible by 2^lod dropped.  The translation column
\* of the transform is counted in halves of a voxel; the acceleration
\* structure reference is passed through and left out.
ChunkToInstances(chunk, lod, grid_position, order) ==
    LET keep(l) == \A i \in 1..3 : l[i] % lod_exponent(lod) = 0
        kept == SelectSeq(order, keep)
    IN  [k \in 1..Len(kept) |->
            [instance_custom_index |-> chunk.voxels[kept[k]].material_index,
             mask |-> IF chunk.visible THEN 255 ELSE 0,
             scale |-> chunk.voxels[kept[k]].scale * lod_exponent(lod),
             translation |->
                [i \in 1..3 |->
                    2 * (CHUNK_WIDTH * grid_position[i] + kept[k][i])
                        + offset_halves(lod)]]]

\* Chunks::distance_to_chunk
distance_to_chunk(grid_position, position) ==
    isqrt(distance_squared([i \in 1..3 |-> TruncDiv(position[i], CHUNK_WIDTH)],
                           grid_position))

\* Mutation: the visible flag is not looked at.
active_chunks_non_empty(chunks) ==
    { g \in DOMAIN chunks : DOMAIN chunks[g].voxels # {} }

\* Chunks::active_chunks
active_chunks(chunks) ==
    { g \in DOMAIN chunks :
        DOMAIN chunks[g].voxels # {} /\ chunks[g].visible }

\* Mutation: the chunks are left in iteration order.
sort_by_nothing(chunks, origin) == chunks

\* chunks.sort_by(distance_a.cmp(&distance_b)): a stable sort.  The first
\* chunk goes in front of the sorted rest's first chunk that is not nearer
\* than it, so chunks at equal distance keep their iteration order.
RECURSIVE sort_by(_, _)
sort_by(chunks, origin) ==
    IF Len(chunks) <= 1 THEN chunks
    ELSE LET rest == sort_by(Tail(chunks), origin)
             distance == distance_to_chunk(Head(chunks), origin)
             nearer == Cardinality({ k \in 1..Len(rest) :
                          distance_to_chunk(rest[k], origin) < distance })
         IN  SubSeq(rest, 1, nearer) \o << Head(chunks) >>
                 \o SubSeq(rest, nearer + 1, Len(rest))

\* flat_map: the blocks one after the other.
RECURSIVE Flatten(_)
Flatten(blocks) ==
    IF Len(blocks) = 0 THEN << >>
    ELSE Head(blocks) \o Flatten(Tail(blocks))

\* Mutation: take() that lets one record more through.
take_one_more(s, n) == SubSeq(s, 1, IF n + 1 < Len(s) THEN n + 1 ELSE Len(s))

\* Iterator::take(n)
take(s, n) == SubSeq(s, 1, IF n < Len(s) THEN n ELSE Len(s))

\* Chunks::to_instances for one iteration order of the chunk map
\* (chunk_order, the active chunks as the map yields them) and one of each
\* active chunk's voxel map (voxel_order).
to_instances(chunks, lod, origin, max_instance_count, chunk_order, voxel_order) ==
    LET sorted == sort_by(chunk_order, origin)
        blocks == [k \in 1..Len(sorted) |->
                      ChunkToInstances(ChunkAt(chunks, sorted[k]), lod,
                                       sorted[k], voxel_order[sorted[k]])]
    IN  take(Flatten(blocks), max_instance_count)

\* The iteration orders the voxel maps of the chunks in S may have.
RECURSIVE VoxelOrders(_, _)
VoxelOrders(chunks, S) ==
    IF S = {} THEN { [g \in {} |-> << >>] }
    ELSE LET h == CHOOSE g \in S : TRUE
         IN  { [g \in S |-> IF g = h THEN o ELSE f[g]] :
                 o \in IterationOrders(DOMAIN chunks[h].voxels),
                 f \in VoxelOrders(chunks, S \ { h }) }

\* Every sequence a call of to_instances may return on the map `chunks`.
ToInstancesResults(chunks, lod, origin, max_instance_count) ==
    { to_instances(chunks, lod, origin, max_instance_count, co, vo) :
        co \in IterationOrders(active_chunks(chunks)),
        vo \in VoxelOrders(chunks, active_chunks(chunks)) }

\* The worlds at most n calls of insert_voxel build, each with the positions
\* the calls were made with.
RECURSIVE WorldsAfter(_)
WorldsAfter(n) ==
    IF n = 0 THEN { [chunks |-> [g \in {} |-> DefaultChunk], inserted |-> {}] }
    ELSE LET before == WorldsAfter(n - 1)
         IN  before \cup
             { [chunks |-> insert_voxel(w.chunks, position, HostVoxel(m)).chunks,
                inserted |-> w.inserted \cup { position }] :
                 w \in before, position \in InstancePositions, m \in Materials }

\* The world after set_chunk_visibility(g, false) for every g of a set.
RECURSIVE Hide(_, _)
Hide(chunks, S) ==
    IF S = {} THEN chunks
    ELSE LET h == CHOOSE g \in S : TRUE
         IN  Hide(set_chunk_visibility(chunks, h, FALSE).chunks, S \ { h })

\* A world built by insert_voxel and set_chunk_visibility, on which
\* to_instances has not been called yet.
InstancesInit ==
    /\ ProtocolInit
    /\ \E w \in WorldsAfter(MaxVoxels), H \in SUBSET HiddenTargets :
          /\ inner = Hide(w.chunks, H)
          /\ inserted = w.inserted
    /\ op = "none"
    /\ arg = << 0, 0, 0 >>
    /\ ret = NoRet

\* Chunks::to_instances(&self, lod, origin, reference, max_instance_count)
ToInstances ==
    /\ op = "none"
    /\ \E lod \in Lods, origin \in Origins, max_instance_count \in MaxCounts :
        \E result \in ToInstancesResults(inner, lod, origin, max_instance_count) :
            /\ op' = "to_instances"
            /\ arg' = [lod |-> lod, origin |-> origin,
                       max_instance_count |-> max_instance_count]
            /\ ret' = [panic |-> FALSE, val |-> result]
            /\ UNCHANGED << inner, inserted, protocolVars >>

\* One call of to_instances on a world.
InstancesSpec == InstancesInit /\ [][ToInstances]_vars

\* ======================================================================
\* Claims about the voxel world
\* ======================================================================
\* The voxels a map stores, each as << chunk, local coordinate >>.
Stored(chunks) ==
    UNION { { << g, l >> : l \in DOMAIN chunks[g].voxels } : g \in DOMAIN chunks }

\* The global coordinate of local coordinate l of chunk g.
Global(g, l) == [i \in 1..3 |-> CHUNK_WIDTH * g[i] + l[i]]

\* A voxel is stored for the global coordinate `position`.
Occupied(chunks, position) ==
    \E v \in Stored(chunks) : Global(v[1], v[2]) = position

\* ------------------------------------------------- C14
\* C14 (P1): no two stored voxels have the same global coordinate, and every
\* stored key is a local coordinate of its chunk; an insert_voxel at an
\* occupied coordinate returns None and leaves every chunk, the stored voxel
\* included, as it was.
C14_NoDuplicateOccupancy ==
    /\ [](\A v, w \in Stored(inner) :
            /\ \A i \in 1..3 : v[2][i] >= 0 /\ v[2][i] < CHUNK_WIDTH
            /\ Global(v[1], v[2]) = Global(w[1], w[2]) => v = w)
    /\ [][ (op' = "insert_voxel" /\ Occupied(inner, arg'))
              => (ret' = [panic |-> FALSE, val |-> << "None" >>]
                  /\ inner' = inner) ]_vars

C14_Witness ==
    /\ op = "insert_voxel"
    /\ arg = << -1, -1, -1 >>
    /\ ret = [panic |-> FALSE, val |-> << "None" >>]
    /\ Cardinality(Stored(inner)) = 3
    /\ << 1, 0, 0 >> \in DOMAIN inner
    /\ Cardinality(DOMAIN inner[<< 1, 0, 0 >>].voxels) = 2

\* ------------------------------------------------- C15
\* The coordinate lies strictly between -WORLD * CHUNK_WIDTH and
\* WORLD * CHUNK_WIDTH on every axis: the bounds Chunks configures.
WithinConfiguredBound(position) ==
    /\ -(WORLD_WIDTH * CHUNK_WIDTH) < position[1]
    /\ position[1] < WORLD_WIDTH * CHUNK_WIDTH
    /\ -(WORLD_HEIGHT * CHUNK_WIDTH) < position[2]
    /\ position[2] < WORLD_HEIGHT * CHUNK_WIDTH
    /\ -(WORLD_DEPTH * CHUNK_WIDTH) < position[3]
    /\ position[3] < WORLD_DEPTH * CHUNK_WIDTH

\* C15 (P2): for a coordinate within the configured bound,
\* translation_to_position returns chunk = floor(global / CHUNK_WIDTH) on
\* every axis and CHUNK_WIDTH * chunk + local = global; (70,5,5) gives chunk
\* (1,0,0) and local (6,5,5); insert_voxel of (x,0,0), x >= 0, on empty
\* chunks returns chunk (x / CHUNK_WIDTH, 0, 0).
C15_TranslationIsFloor ==
    /\ (op = "translation_to_position" /\ WithinConfiguredBound(arg)) =>
          /\ ~ret.panic
          /\ \A i \in 1..3 :
                /\ ret.val.grid_position[i] = arg[i] \div CHUNK_WIDTH
                /\ CHUNK_WIDTH * ret.val.grid_position[i]
                      + ret.val.local_position[i] = arg[i]
    /\ (op = "translation_to_position" /\ arg = << 70, 5, 5 >>) =>
          /\ ret.val.grid_position = << 1, 0, 0 >>
          /\ ret.val.local_position = << 6, 5, 5 >>
    /\ (/\ op = "insert_voxel"
        /\ WithinConfiguredBound(arg)
        /\ arg[1] >= 0 /\ arg[2] = 0 /\ arg[3] = 0) =>
          ret = [panic |-> FALSE,
                 val |-> << "Some", << arg[1] \div CHUNK_WIDTH, 0, 0 >> >>]

C15_Witness ==
    /\ op = "insert_voxel"
    /\ arg = << -65, 129, -4095 >>
    /\ ret = [panic |-> FALSE, val |-> << "Some", << -2, 2, -64 >> >>]

\* ------------------------------------------------- C16
\* C16: insert_voxel, contains and get_voxel panic exactly when the
\* coordinate is not within the configured bound on some axis; a call that
\* panics leaves every chunk as it was.
C16_PanicOutsideBound ==
    /\ [](op \in { "insert_voxel", "contains", "get_voxel" } =>
            (ret.panic <=> ~WithinConfiguredBound(arg)))
    /\ [][ ret'.panic => inner' = inner ]_vars

C16_Witness ==
    /\ op = "insert_voxel"
    /\ arg = << 0, -4096, 0 >>
    /\ ret.panic
    /\ Cardinality(Stored(inner)) = 2

\* ------------------------------------------------- C17
\* The global coordinate an instance was emitted for, read back from the
\* translation column of its transform.
InstancePosition(instance, lod) ==
    [i \in 1..3 |-> (instance.translation[i] - offset_halves(lod)) \div 2]

\* The chunk that coordinate lies in.
InstanceChunk(instance, lod) ==
    [i \in 1..3 |-> InstancePosition(instance, lod)[i] \div CHUNK_WIDTH]

\* The chunks of the instances of the returned sequence, in order.
ReturnedChunks ==
    [k \in 1..Len(ret.val) |-> InstanceChunk(ret.val[k], arg.lod)]

\* C17 (P3): in the sequence to_instances returns, the instances of one chunk
\* are adjacent and the chunks' distances (distance_to_chunk: isqrt of the
\* squared chunk distance) from the reference point never decrease; with
\* voxels in chunks at distances 3, 1 and 2 the blocks come in order 1, 2, 3.
C17_NearestChunksFirst ==
    op = "to_instances" =>
        /\ \A i, j, k \in 1..Len(ret.val) :
              (i < j /\ j < k /\ ReturnedChunks[i] = ReturnedChunks[k])
                  => ReturnedChunks[j] = ReturnedChunks[i]
        /\ \A i, j \in 1..Len(ret.val) :
              i < j => distance_to_chunk(ReturnedChunks[i], arg.origin)
                          <= distance_to_chunk(ReturnedChunks[j], arg.origin)
        /\ (/\ active_chunks(inner) = { << 3, 0, 0 >>, << 1, 0, 0 >>, << 2, 0, 0 >> }
            /\ arg.origin = << 0, 0, 0 >>
            /\ Len(ret.val) = 3)
              => ReturnedChunks = << << 1, 0, 0 >>, << 2, 0, 0 >>, << 3, 0, 0 >> >>

C17_Witness ==
    /\ op = "to_instances"
    /\ active_chunks(inner) = { << 3, 0, 0 >>, << 1, 0, 0 >>, << 2, 0, 0 >> }
    /\ arg = [lod |-> 0, origin |-> << 0, 0, 0 >>, max_instance_count |-> 1000]
    /\ Len(ret.val) = 3
    /\ ReturnedChunks = << << 1, 0, 0 >>, << 2, 0, 0 >>, << 3, 0, 0 >> >>

\* ------------------------------------------------- C18
\* The voxels of the active chunks whose three local coordinates are all
\* divisible by 2^lod, each as << chunk, local coordinate >>.
Candidates(chunks, lod) ==
    { v \in Stored(chunks) :
        /\ v[1] \in active_chunks(chunks)
        /\ \A i \in 1..3 : v[2][i] % (2 ^ lod) = 0 }

\* The global coordinates of the instances of the returned sequence.
ReturnedPositions ==
    { InstancePosition(ret.val[k], arg.lod) : k \in 1..Len(ret.val) }

\* One of the sequences to_instances may return at lod 0 for the world and
\* the other arguments of the last call.
SameCallAtLod0 ==
    CHOOSE s \in ToInstancesResults(inner, 0, arg.origin, arg.max_instance_count) :
        TRUE

\* C18 (P4): every returned instance belongs to a voxel of an active chunk
\* whose local coordinates are all divisible by 2^lod, no voxel is returned
\* twice, and when max_instance_count does not cut the sequence every such
\* voxel is returned; a call at lod 1 returns at most as many instances as
\* the call at lod 0 on the same world with the same arguments.
C18_LodFilter ==
    op = "to_instances" =>
        /\ \A k \in 1..Len(ret.val) :
              /\ Occupied(inner, InstancePosition(ret.val[k], arg.lod))
              /\ InstanceChunk(ret.val[k], arg.lod) \in active_chunks(inner)
              /\ \A i \in 1..3 :
                    (InstancePosition(ret.val[k], arg.lod)[i] % CHUNK_WIDTH)
                        % (2 ^ arg.lod) = 0
        /\ Cardinality(ReturnedPositions) = Len(ret.val)
        /\ Len(ret.val) < arg.max_instance_count =>
              \A v \in Candidates(inner, arg.lod) :
                  Global(v[1], v[2]) \in ReturnedPositions
        /\ arg.lod = 1 => Len(ret.val) <= Len(SameCallAtLod0)

C18_Witness ==
    /\ op = "to_instances"
    /\ arg = [lod |-> 1, origin |-> << 0, 0, 0 >>, max_instance_count |-> 1000]
    /\ Occupied(inner, << 70, 5, 5 >>)
    /\ ReturnedPositions = { << 64, 0, 0 >>, << 130, 0, 0 >> }
    /\ Len(SameCallAtLod0) = 3

\* ------------------------------------------------- C19
\* C19 (P5): to_instances returns min(max_instance_count, number of
\* candidate instances) records, the returned sequence is the start of a
\* sequence the call returns when nothing is cut, and every candidate of a
\* chunk strictly nearer than the chunk of a returned instance is returned.
C19_TruncationKeepsNearest ==
    op = "to_instances" =>
        /\ Len(ret.val) =
              IF arg.max_instance_count < Cardinality(Candidates(inner, arg.lod))
              THEN arg.max_instance_count
              ELSE Cardinality(Candidates(inner, arg.lod))
        /\ \E full \in ToInstancesResults(inner, arg.lod, arg.origin,
                           Cardinality(Candidates(inner, arg.lod))) :
              ret.val = SubSeq(full, 1, Len(ret.val))
        /\ \A k \in 1..Len(ret.val) :
              \A v \in Candidates(inner, arg.lod) :
                  distance_to_chunk(v[1], arg.origin)
                      < distance_to_chunk(ReturnedChunks[k], arg.origin)
                  => Global(v[1], v[2]) \in ReturnedPositions

C19_Witness ==
    /\ op = "to_instances"
    /\ arg = [lod |-> 0, origin |-> << 0, 0, 0 >>, max_instance_count |-> 2]
    /\ Cardinality(Candidates(inner, 0)) = 3
    /\ Len(ret.val) = 2
    /\ ReturnedChunks = << << 0, 0, 0 >>, << 1, 0, 0 >> >>
    /\ Occupied(inner, << 200, 2, 4 >>)

\* ------------------------------------------------- C20
\* C20: contains is true for every position insert_voxel has returned on,
\* whatever inserts and visibility changes came later, and false for every
\* other position within the bounds; the number of stored voxels is the
\* number of distinct positions inserted.
C20_IndexNeverShrinks ==
    /\ \A position \in inserted :
          contains(inner, position) = [panic |-> FALSE, val |-> TRUE]
    /\ (op = "contains" /\ ~ret.panic) => ret.val = (arg \in inserted)
    /\ (op = "get_voxel" /\ ~ret.panic) =>
          (ret.val[1] = "Some" <=> arg \in inserted)
    /\ (op = "insert_voxel" /\ ~ret.panic) => arg \in inserted
    /\ Cardinality(Stored(inner)) = Cardinality(inserted)

C20_Witness ==
    /\ op = "contains"
    /\ arg = << 70, 5, 5 >>
    /\ ret = [panic |-> FALSE, val |-> TRUE]
    /\ inserted = { << 70, 5, 5 >>, << 64, 0, 0 >>, << -1, -1, -1 >> }
    /\ ~inner[<< 1, 0, 0 >>].visible

\* ------------------------------------------------- C21
\* A world built by insert_voxel and set_chunk_visibility, on which
\* to_instances is called once and the visibility of chunks is changed.
VisibilityNext == ToInstances \/ SetChunkVisibility

VisibilitySpec == InstancesInit /\ [][VisibilityNext]_vars

\* The chunk has been hidden by set_chunk_visibility and holds voxels.
HiddenWithVoxels(chunks, g) ==
    /\ g \in DOMAIN chunks
    /\ ~chunks[g].visible
    /\ DOMAIN chunks[g].voxels # {}

\* C21: to_instances returns instances of non-empty visible chunks only, so
\* none of a chunk hidden by set_chunk_visibility(c, false), and all of a
\* visible chunk's when nothing is cut; set_chunk_visibility changes the
\* visible flag of chunk c alone: the stored voxels, every other chunk and
\* the results of contains and get_voxel stay as they were, and c is active
\* afterwards iff it was made visible and holds a voxel.
C21_HiddenChunksNotEmitted ==
    /\ [](op = "to_instances" =>
            /\ \A k \in 1..Len(ret.val) :
                  /\ ReturnedChunks[k] \in DOMAIN inner
                  /\ inner[ReturnedChunks[k]].visible
                  /\ DOMAIN inner[ReturnedChunks[k]].voxels # {}
                  /\ ~HiddenWithVoxels(inner, ReturnedChunks[k])
            /\ Len(ret.val) < arg.max_instance_count =>
                  \A v \in Stored(inner) :
                      (inner[v[1]].visible
                          /\ \A i \in 1..3 : v[2][i] % (2 ^ arg.lod) = 0)
                      => Global(v[1], v[2]) \in ReturnedPositions)
    /\ [][ op' = "set_chunk_visibility" =>
              /\ Stored(inner') = Stored(inner)
              /\ \A position \in InstancePositions \cup Positions :
                    /\ contains(inner', position) = contains(inner, position)
                    /\ get_voxel(inner', position) = get_voxel(inner, position)
              /\ \A g \in (DOMAIN inner \cup DOMAIN inner') \ { arg'[1] } :
                    ChunkAt(inner', g) = ChunkAt(inner, g)
              /\ ChunkAt(inner', arg'[1]).visible = arg'[2]
              /\ arg'[1] \in active_chunks(inner') <=>
                    (arg'[2] /\ DOMAIN ChunkAt(inner, arg'[1]).voxels # {})
          ]_vars

C21_Witness ==
    /\ op = "to_instances"
    /\ HiddenWithVoxels(inner, << 1, 0, 0 >>)
    /\ Cardinality(DOMAIN inner[<< 1, 0, 0 >>].voxels) = 2
    /\ arg = [lod |-> 0, origin |-> << 0, 0, 0 >>, max_instance_count |-> 1000]
    /\ ReturnedChunks = << << 2, 0, 0 >> >>

\* ------------------------------------------------- C22
\* The positions insert_voxel was called with that lie in a visible chunk.
VisiblePositions ==
    { position \in inserted :
        ChunkAt(inner, [i \in 1..3 |-> position[i] \div CHUNK_WIDTH]).visible }

\* C22: at lod 0, when max_instance_count does not cut the sequence,
\* to_instances returns one record for every position inserted into a
\* visible chunk and no other record; the record's translation is that
\* position (twice it, counted in halves) and its custom index is the
\* material index get_voxel returns for the position.
C22_InstanceRoundTrip ==
    (op = "to_instances" /\ arg.lod = 0
        /\ Len(ret.val) < arg.max_instance_count) =>
        /\ Len(ret.val) = Cardinality(VisiblePositions)
        /\ \A position \in VisiblePositions :
              Cardinality({ k \in 1..Len(ret.val) :
                  ret.val[k].translation = [i \in 1..3 |-> 2 * position[i]] }) = 1
        /\ \A k \in 1..Len(ret.val) :
              \E position \in VisiblePositions :
                  /\ ret.val[k].translation = [i \in 1..3 |-> 2 * position[i]]
                  /\ get_voxel(inner, position).val =
                        << "Some", [scale |-> ret.val[k].scale,
                                    material_index |->
                                        ret.val[k].instance_custom_index] >>

C22_Witness ==
    /\ op = "to_instances"
    /\ arg = [lod |-> 0, origin |-> << 0, 0, 0 >>, max_instance_count |-> 1000]
    /\ inserted = { << -1, -1, -1 >>, << 70, 5, 5 >>, << 64, 0, 0 >> }
    /\ VisiblePositions = inserted
    /\ Len(ret.val) = 3
    /\ { ret.val[k].instance_custom_index : k \in 1..3 } = { 1, 2 }
    /\ ret.val[1].translation = << -2, -2, -2 >>

\* ------------------------------------------------- construction
\* State before RayTracingRenderTask::new has built anything: no structure
\* exists, the compute flight is empty, neither thread runs yet.
BuildInit ==
    /\ current_as_index = FALSE
    /\ show_current_index = TRUE
    /\ wpc = "Idle"
    /\ last_frame = 0
    /\ back_index = FALSE
    /\ waited_frame = 0
    /\ seen_frame = 0
    /\ cycles = 0
    /\ chan = 0
    /\ unconsumed = 0
    /\ woken_by = 0
    /\ disconnected = FALSE
    /\ rpc = "WaitIdle"
    /\ front_index = FALSE
    /\ current_frame = 0
    /\ gfxInFlight = {}
    /\ computeInFlight = {}
    /\ computeFrame = 0
    /\ instance_buffer = 0
    /\ tlas = [i \in {0, 1} |-> 0]
    /\ tlas_input = [i \in {0, 1} |-> "none"]
    /\ bpc = << "Submit", BuildOrder[1] >>
    /\ buildInFlight = {}
    /\ built = {}
    /\ handles = {}
    /\ EmptyWorld

\* The step that follows the return of the build of `structure`.
AfterBuild(structure) ==
    LET k == CHOOSE j \in 1..Len(BuildOrder) : BuildOrder[j] = structure
    IN  IF k < Len(BuildOrder) THEN << "Submit", BuildOrder[k + 1] >>
        ELSE << "Done", "none" >>

\* The copy of acceleration_structures a TLAS build fills.
CopyOf(structure) == IF structure = "tlas0" THEN 0 ELSE 1

\* build_acceleration_structure_common, `vulkano_taskgraph::execute(&queue,
\* resources, flight_id, ...)`: the build command is submitted on the
\* compute flight.
BuildSubmit ==
    /\ bpc[1] = "Submit"
    /\ buildInFlight' = buildInFlight \cup
          { [id |-> computeFrame, structure |-> bpc[2]] }
    /\ computeFrame' = computeFrame + 1
    /\ bpc' = << "WaitIdle", bpc[2] >>
    /\ UNCHANGED << worldVars, current_as_index, show_current_index, workerVars,
                    chanVars, renderVars, gfxVars, computeInFlight, memVars,
                    built, handles >>

\* The compute queue retires a submitted build: the structure is complete;
\* a TLAS copy holds the instances build_tlas put in its private buffer.
BuildRetire ==
    /\ \E r \in buildInFlight :
          /\ buildInFlight' = buildInFlight \ {r}
          /\ built' = built \cup {r.structure}
          /\ IF r.structure = "blas"
                 THEN UNCHANGED << tlas, tlas_input >>
                 ELSE /\ tlas' = [tlas EXCEPT ![CopyOf(r.structure)] = 0]
                      /\ tlas_input' =
                            [tlas_input EXCEPT ![CopyOf(r.structure)] = "build_tlas"]
    /\ UNCHANGED << worldVars, current_as_index, show_current_index, workerVars,
                    chanVars, renderVars, gfxVars, computeVars, instance_buffer,
                    bpc, handles >>

BuildWaitIdleNoWait ==
    /\ bpc[1] = "WaitIdle"
    /\ handles' = handles \cup {bpc[2]}
    /\ bpc' = AfterBuild(bpc[2])
    /\ UNCHANGED << worldVars, current_as_index, show_current_index, workerVars,
                    chanVars, renderVars, gfxVars, computeVars, memVars,
                    buildInFlight, built >>

\* `resources.flight(flight_id).unwrap().wait_idle().unwrap()` followed by
\* the return of `acceleration`.
BuildWaitIdle ==
    /\ bpc[1] = "WaitIdle"
    /\ ComputeIdle
    /\ handles' = handles \cup {bpc[2]}
    /\ bpc' = AfterBuild(bpc[2])
    /\ UNCHANGED << worldVars, current_as_index, show_current_index, workerVars,
                    chanVars, renderVars, gfxVars, computeVars, memVars,
                    buildInFlight, built >>

\* RayTracingRenderTask::new: build_blas, then build_tlas twice.
Build == BuildSubmit \/ BuildWaitIdle

\* The render task and the worker receive the handles as arguments, so
\* they take their first step after the constructor has returned them.
Started == bpc[1] = "Done" /\ Next

ProgramNext == Build \/ BuildRetire \/ Started

ProgramSpec == BuildInit /\ [][ProgramNext]_vars

\* A submitted frame or rebuild: the render task or the worker has handed a
\* structure to the device.
StructuresInUse ==
    \/ gfxInFlight # {}
    \/ computeInFlight # {}
    \/ current_frame > 0
    \/ cycles > 0

\* C23: a build function returns its handle only once the build it
\* submitted has retired: every returned handle names a complete structure,
\* the compute flight has no outstanding work at the return, and when the
\* constructor is done, and so whenever the render task or the worker has
\* used a structure, the BLAS and both TLAS copies are complete.
C23_HandleAfterBuildRetired ==
    /\ [](handles \subseteq built)
    /\ [](bpc[1] = "Done" => built = AllStructures)
    /\ [](StructuresInUse => built = AllStructures /\ handles = AllStructures)
    /\ [][handles' # handles => buildInFlight = {} /\ buildInFlight' = {}]_vars

C23_Witness ==
    /\ bpc[1] = "Done"
    /\ computeFrame > Len(BuildOrder)
    /\ current_frame > 0
    /\ built = AllStructures

\* C24: the render frame that clears show_current_index is a frame that
\* loaded the index the worker published before setting the flag: whenever
\* a set flag is cleared, the clearing frame's front_index is the value
\* current_as_index holds.
C24_ClearingFrameLoadedPublishedIndex ==
    [][ (show_current_index /\ ~show_current_index')
            => front_index = current_as_index ]_vars

\* ------------------------------------------------- C25, C26
\* The coordinate lies in a chunk create_empty_chunks made: the chunk
\* coordinate insert computes for it is a key of the grid on every axis.
InCreatedChunk(position) == InGrid([i \in 1..3 |-> GridAxis(position[i])])

\* C25: every global coordinate that lies inside a chunk created by
\* create_empty_chunks, -WORLD * CHUNK_WIDTH up to WORLD * CHUNK_WIDTH - 1
\* on each axis, is accepted by the bounds check: a call with it does not
\* panic.
C25_GridCoordinatesAccepted ==
    (op # "none" /\ InCreatedChunk(arg)
        /\ \A i \in 1..3 : arg[i] >= -(WORLD_WIDTH * CHUNK_WIDTH)
                            /\ arg[i] <= WORLD_WIDTH * CHUNK_WIDTH - 1)
        => (in_bounds(arg) /\ ~ret.panic)

\* C26: for every coordinate that passes the bounds check the computed
\* chunk coordinate is a key of the grid and the computed local coordinate
\* is in [0, CHUNK_WIDTH) on each axis, and insert_voxel, contains and
\* get_voxel do not panic.
C26_AcceptedCoordinatesNeverPanic ==
    (op # "none" /\ in_bounds(arg)) =>
        /\ ~translation_to_position(arg).panic
        /\ InGrid(translation_to_position(arg).val.grid_position)
        /\ \A i \in 1..3 :
              translation_to_position(arg).val.local_position[i]
                  \in 0..(CHUNK_WIDTH - 1)
        /\ ~ret.panic
        /\ ~contains(inner, arg).panic
        /\ ~get_voxel(inner, arg).panic
        /\ ~insert_voxel(inner, arg, HostVoxel(2)).panic

C26_Witness ==
    /\ op = "insert_voxel"
    /\ arg = << -4095, 4095, -1 >>
    /\ in_bounds(arg)
    /\ ret = [panic |-> FALSE, val |-> << "Some", << -64, 63, -1 >> >>]

\* ------------------------------------------------- C27
\* The chunk insert_voxel puts a voxel at `position` in.
ContainingChunk(position) == [i \in 1..3 |-> GridAxis(position[i])]

\* C27: the distance used to sort chunks agrees with the mapping used by
\* insert: for every reference point the chunk containing it has distance 0,
\* no active chunk is nearer than it, and in the returned sequence no
\* instance of a chunk at another distance comes before its instances.
C27_ReferenceChunkNearest ==
    op = "to_instances" =>
        LET home == ContainingChunk(arg.origin)
        IN  /\ distance_to_chunk(home, arg.origin) = 0
            /\ \A g \in active_chunks(inner) :
                  distance_to_chunk(home, arg.origin)
                      <= distance_to_chunk(g, arg.origin)
            /\ \A i, j \in 1..Len(ret.val) :
                  (i < j /\ ReturnedChunks[j] = home)
                      => distance_to_chunk(ReturnedChunks[i], arg.origin)
                            = distance_to_chunk(home, arg.origin)

\* ------------------------------------------------- C28
\* The instances of a returned sequence, as a set.
InstanceSet(instances) == { instances[k] : k \in 1..Len(instances) }

\* C28: to_instances is deterministic: on a fixed world with fixed
\* arguments the set of returned instances is the same for every iteration
\* order of the chunk map and of the chunks' voxel maps, also when the
\* candidates exceed max_count and among chunks at equal distance.
C28_OrderIndependentResult ==
    op = "to_instances" =>
        \A other \in ToInstancesResults(inner, arg.lod, arg.origin,
                                        arg.max_instance_count) :
            InstanceSet(other) = InstanceSet(ret.val)

\* ------------------------------------------------- in-graph update task
\* UPDATES_PER_FRAME of tasks/as_update.rs: 2u64.pow(10).
IN_GRAPH_UPDATES_PER_FRAME == 1024

\* Values of max_instance_count the task is constructed with.
AsUpdateCounts == { 1, 1000, 1023, 1024, 1025, 1100, 1200 }

\* Values rand::random_range may return when the end of the range has
\* wrapped to 2^64 - (UPDATES_PER_FRAME - max_instance_count): the first
\* index, the first index after the buffer, and one window further.
WrappedRangeSamples(max_instance_count) ==
    { 0, max_instance_count, max_instance_count + IN_GRAPH_UPDATES_PER_FRAME }

\* execute of as_update.rs up to the start of the window. The u64
\* subtraction underflows below UPDATES_PER_FRAME: a build with overflow
\* checks panics there, one without them wraps; random_range panics on an
\* empty range.
as_update_execute(max_instance_count, needs_as_rebuild) ==
    IF ~needs_as_rebuild THEN { [panic |-> FALSE, val |-> "unit"] }
    ELSE IF max_instance_count < IN_GRAPH_UPDATES_PER_FRAME
         THEN { Panic } \cup
              { [panic |-> FALSE,
                 val |-> [start_instance |-> start, wrapped |-> TRUE]] :
                   start \in WrappedRangeSamples(max_instance_count) }
    ELSE IF max_instance_count - IN_GRAPH_UPDATES_PER_FRAME = 0
         THEN { Panic }
    ELSE { [panic |-> FALSE,
            val |-> [start_instance |-> start, wrapped |-> FALSE]] :
              start \in 0..(max_instance_count - IN_GRAPH_UPDATES_PER_FRAME - 1) }

AsUpdateInit ==
    /\ ProtocolInit
    /\ inner = [g \in {} |-> DefaultChunk]
    /\ inserted = {}
    /\ op = "none"
    /\ arg \in [max_instance_count : AsUpdateCounts, needs_as_rebuild : BOOLEAN]
    /\ ret = NoRet

\* UpdateAccelerationStructureTask::execute (as_update.rs)
AsUpdateExecute ==
    /\ op = "none"
    /\ op' = "as_update"
    /\ ret' \in as_update_execute(arg.max_instance_count, arg.needs_as_rebuild)
    /\ UNCHANGED << arg, inner, inserted, protocolVars >>

AsUpdateSpec == AsUpdateInit /\ [][AsUpdateExecute]_vars

\* C29: whenever a rebuild is requested, for every max_instance_count >= 1
\* the computation of the window start neither underflows nor draws from an
\* empty range, and the window of UPDATES_PER_FRAME records lies inside
\* [0, max_instance_count).
C29_WindowInsideBuffer ==
    (op = "as_update" /\ arg.needs_as_rebuild /\ arg.max_instance_count >= 1) =>
        /\ ~ret.panic
        /\ ~ret.val.wrapped
        /\ ret.val.start_instance >= 0
        /\ ret.val.start_instance + IN_GRAPH_UPDATES_PER_FRAME
              <= arg.max_instance_count

\* ------------------------------------------------- primitive counts
\* UPDATES_PER_FRAME of tasks/update_as.rs, the worker's update task.
UPDATES_PER_FRAME == 1000

\* Values of max_instance_count RayTracingRenderTask::new is called with.
TlasCounts == 985..1015 \cup { 1, 2, 4096, 16777215 }

\* build_tlas: primitive_count = as_instances.len()
build_tlas_primitive_count(as_instances_len) == as_instances_len

TlasCountInit ==
    /\ ProtocolInit
    /\ inner = [g \in {} |-> DefaultChunk]
    /\ inserted = {}
    /\ op = "none"
    /\ arg \in [max_instance_count : TlasCounts]
    /\ ret = NoRet

\* RayTracingRenderTask::new: render_instances has max_instance_count
\* records and both copies are built from a clone of it.
BuildTlasCopies ==
    /\ op = "none"
    /\ op' = "build_tlas"
    /\ ret' = [panic |-> FALSE,
               val |-> [built |-> [i \in {0, 1} |->
                           build_tlas_primitive_count(arg.max_instance_count)]]]
    /\ UNCHANGED << arg, inner, inserted, protocolVars >>

\* execute of update_as.rs in a worker cycle on acceleration_structures[
\* back_index]: records 0..UPDATES_PER_FRAME of the instance buffer are
\* rewritten and the update is recorded with primitive_count
\* UPDATES_PER_FRAME.
WorkerUpdate ==
    /\ op = "build_tlas"
    /\ \E back \in {0, 1} :
          /\ op' = "update"
          /\ ret' = [panic |-> FALSE,
                     val |-> [built |-> ret.val.built,
                              tlas |-> back,
                              written |-> << 0, UPDATES_PER_FRAME >>,
                              primitive_count |-> UPDATES_PER_FRAME]]
    /\ UNCHANGED << arg, inner, inserted, protocolVars >>

TlasCountNext == BuildTlasCopies \/ WorkerUpdate

TlasCountSpec == TlasCountInit /\ [][TlasCountNext]_vars

\* C30: every update the worker submits against a TLAS copy uses the
\* primitive count the copy was built with, and the instance records
\* rewritten in that cycle cover all primitives the update reads.
C30_UpdateCountMatchesBuild ==
    op = "update" =>
        /\ ret.val.primitive_count = ret.val.built[ret.val.tlas]
        /\ ret.val.written[1] = 0
        /\ ret.val.written[2] >= ret.val.primitive_count

====
